---- MODULE Spec2Model ----
(***************************************************************************)
(* The two measurement tools of libevdev's tools directory:                *)
(*   - the mouse resolution/frequency probe (src/unnamed/part_000)        *)
(*   - the touchpad edge detector (src/tools/touchpad-edge-detector.c),     *)
(*     which the source file holds in two revisions: lines 1-283 (poll     *)
(*     only, with the abs-axes check) and lines 285-497 (poll or kqueue,   *)
(*     without the check).                                                 *)
(* One process is modelled per behaviour; Init chooses the tool, the build *)
(* platform, the command line, the device and the shape of the session.    *)
(***************************************************************************)
EXTENDS Integers, Sequences, FiniteSets, TLC

(* ------------------------------------------------------------------ *)
(* Program constants                                                  *)
(* ------------------------------------------------------------------ *)

\* #define EVENT_SIZ 32
EVENT_SIZ == 32

\* const int idle_reset = 3000000; /* us */
idle_reset == 3000000

\* limits.h, used to initialise struct dimensions
INT_MAX == 2147483647

INT_MIN == (-INT_MAX) - 1

\* the numerator of get_frequency's quotient, 1000000.0
HZ_NUM == 1000000

\* the event types and codes the handlers compare against (linux/input.h values)
EV_SYN == 0

EV_REL == 2

EV_ABS == 3

REL_X == 0

ABS_X == 0

ABS_Y == 1

ABS_MT_POSITION_X == 53

ABS_MT_POSITION_Y == 54

(* ------------------------------------------------------------------ *)
(* Bounds of the model                                                *)
(* ------------------------------------------------------------------ *)

\* synchronization events the kernel emits in a session that studies the window
MaxSyn == 35

\* synchronization events the kernel emits in a session that studies motion
MaxSynMotion == 2

\* relative-motion events per session
MaxRel == 2

\* absolute-position events per session
MaxAbs == 2

\* events that can wait in the device's queue
MaxQueue == 2

\* largest regular spacing tried for the pure frequency estimator
MaxD == 3

(* ------------------------------------------------------------------ *)
(* Value sets of the environment                                      *)
(* ------------------------------------------------------------------ *)

Tools == {"mouse", "touchpad", "touchpad_kq"}

Platforms == {"linux", "bsd"}

\* regular spacing, in microseconds, between two synchronization events
Periods == {0, 1, 2}

\* pauses around the idle threshold
Gaps == {idle_reset, idle_reset + 1}

RelValues == {-2, 1}

AbsValues == {3, 7}

XCodes == {ABS_X, ABS_MT_POSITION_X}

YCodes == {ABS_Y, ABS_MT_POSITION_Y}

\* contents an uninitialized double on the stack may hold
Garbage == {-1, 0, 1}

VARIABLES
    tool,               \* which program runs
    platform,           \* the #ifdef __linux__ branch compiled in
    argv,               \* "none" (argc < 2), "flag" (path[0] == '-'), "path"
    caps,               \* EV_ABS codes the device exposes
    pc,                 \* position in main / mainloop
    fd_open,            \* fd returned by open() and not yet close()d
    dev_alive,          \* struct libevdev created and not yet freed
    rc,                 \* main's rc; the exit status once pc = "exited"
    read_rc,            \* mainloop's rc: result of the last libevdev_next_event
    m,                  \* struct measurements
    event_times,        \* static double event_times[EVENT_SIZ]
    event_times_index,  \* static size_t event_times_index
    event_list_valid,   \* static bool event_list_valid
    dim,                \* struct dimensions
    printed,            \* what the mouse tool wrote: last progress line, summary
    queue,              \* events the kernel holds for the device fd
    dev_gone,           \* the device node was removed
    sigint,             \* a SIGINT is pending (blocked, readable on the signal fd)
    clock,              \* kernel time in us of the last synchronization event
    period,             \* current regular spacing of synchronization events
    env,                \* what the environment may still do in this session
    rel_log,            \* REL_X values handled since the last idle reset
    xs,                 \* <<code, value>> of the X positions the touchpad tool handled
    ys,                 \* <<code, value>> of the Y positions the touchpad tool handled
    estimates,          \* values get_frequency returned since the last idle reset
    syn_log             \* timestamps recorded in the window since the last idle reset

vars == <<tool, platform, argv, caps, pc, fd_open, dev_alive, rc, read_rc, m,
          event_times, event_times_index, event_list_valid, dim, printed, queue,
          dev_gone, sigint, clock, period, env, rel_log, xs, ys, estimates, syn_log>>

\* the measurement state of both tools
meas == <<m, event_times, event_times_index, event_list_valid, dim>>

(* ------------------------------------------------------------------ *)
(* Values                                                             *)
(* ------------------------------------------------------------------ *)

\* struct timeval of a kernel time given in microseconds
Timeval(us) == [tv_sec |-> us \div 1000000, tv_usec |-> us % 1000000]

InputEvent(t, c, v, us) == [type |-> t, code |-> c, value |-> v, time |-> Timeval(us)]

\* tv->tv_sec * 1000000 + tv->tv_usec
tv2us(tv) == tv.tv_sec * 1000000 + tv.tv_usec

\* A double that is a quotient num/den, also when den is 0 (IEEE infinity) or
\* negative: get_frequency produces 1000000.0/d, and 0.0 is 0/1.
Quot(n, d) == [num |-> n, den |-> d]

Zero == Quot(0, 1)

\* order of the IEEE values: negative < 0 < positive finite < +inf
Rank(f) == IF f.num = 0 THEN 1 ELSE IF f.den = 0 THEN 3 ELSE IF f.den < 0 THEN 0 ELSE 2

\* a > b on quotients with numerator 0 or HZ_NUM
DoubleGt(a, b) ==
    IF Rank(a) # Rank(b) THEN Rank(a) > Rank(b)
    ELSE IF Rank(a) \in {1, 3} THEN FALSE
    ELSE a.den < b.den

\* the peak update without the comparison: the latest estimate is kept
max_double_latest(a, b) == a

\* #define max(a, b) (((a) > (b)) ? (a) : (b)) on doubles
max_double(a, b) == IF DoubleGt(a, b) THEN a ELSE b

\* #define min / max on ints
min(a, b) == IF a < b THEN a ELSE b

max(a, b) == IF a > b THEN a ELSE b

\* abs(3) on ints in range
abs(x) == IF x < 0 THEN -x ELSE x

(* ------------------------------------------------------------------ *)
(* get_frequency                                                      *)
(* ------------------------------------------------------------------ *)

\* event_times[i] with the C index i in 0..EVENT_SIZ-1
At(times, i) == times[i + 1]

\* get_frequency's loop with the subtraction's operands exchanged
RECURSIVE CollectDifferencesSwapped(_, _, _)
CollectDifferencesSwapped(times, i, acc) ==
    IF i >= EVENT_SIZ THEN acc
    ELSE LET next_index == (i + 1) % EVENT_SIZ
         IN  IF At(times, i) < At(times, next_index) /\ Len(acc) < EVENT_SIZ - 1
             THEN CollectDifferencesSwapped(times, i + 1,
                                     Append(acc, At(times, i) - At(times, next_index)))
             ELSE CollectDifferencesSwapped(times, i + 1, acc)

\* the for loop of get_frequency from index i on, differences collected so far in acc
RECURSIVE CollectDifferences(_, _, _)
CollectDifferences(times, i, acc) ==
    IF i >= EVENT_SIZ THEN acc
    ELSE LET next_index == (i + 1) % EVENT_SIZ
         IN  IF At(times, i) < At(times, next_index) /\ Len(acc) < EVENT_SIZ - 1
             THEN CollectDifferences(times, i + 1,
                                     Append(acc, At(times, next_index) - At(times, i)))
             ELSE CollectDifferences(times, i + 1, acc)

\* x placed into the ascending sequence s
RECURSIVE InsertSorted(_, _)
InsertSorted(x, s) ==
    IF s = <<>> THEN <<x>>
    ELSE IF x <= Head(s) THEN <<x>> \o s
    ELSE <<Head(s)>> \o InsertSorted(x, Tail(s))

\* qsort(differences, d_index, sizeof(differences[0]), double_cmp)
RECURSIVE qsort(_)
qsort(s) == IF s = <<>> THEN <<>> ELSE InsertSorted(Head(s), qsort(Tail(s)))

\* the slot of differences[] that get_frequency reads
MedianSlot == EVENT_SIZ \div 2

\* differences[EVENT_SIZ / 2] after the sort; slots at or beyond d_index were
\* never written and hold whatever the stack held (garbage)
ReadDifference(sorted, garbage) ==
    IF MedianSlot < Len(sorted) THEN sorted[MedianSlot + 1] ELSE garbage

\* static inline double get_frequency(double event_times[EVENT_SIZ])
get_frequency(times, garbage) ==
    Quot(HZ_NUM, ReadDifference(qsort(CollectDifferences(times, 0, <<>>)), garbage))

(* ------------------------------------------------------------------ *)
(* handle_event of the mouse tool                                     *)
(* ------------------------------------------------------------------ *)

\* the pause test with <= in place of <
reset_after_pause_or_equal(last_us, us) == last_us + idle_reset <= us

\* if (last_us + idle_reset < m->us)
reset_after_pause(last_us, us) == last_us + idle_reset < us

\* the reset branch without event_times_index = 0
IdleResetKeepsIndex(st, us) ==
    [st EXCEPT !.m = [distance |-> 0, frequency |-> Zero, us |-> us],
               !.event_list_valid = FALSE]

\* the reset branch without event_list_valid = false
IdleResetKeepsValid(st, us) ==
    [st EXCEPT !.m = [distance |-> 0, frequency |-> Zero, us |-> us],
               !.event_times_index = 0]

\* the reset branch without m->distance = 0
IdleResetKeepsDistance(st, us) ==
    [st EXCEPT !.m = [distance |-> st.m.distance, frequency |-> Zero, us |-> us],
               !.event_times_index = 0,
               !.event_list_valid = FALSE]

\* the reset branch: frequency, distance, index and valid flag
IdleReset(st, us) ==
    [st EXCEPT !.m = [distance |-> 0, frequency |-> Zero, us |-> us],
               !.event_times_index = 0,
               !.event_list_valid = FALSE]

\* print_current_values: the progress line shows abs(m->distance)
print_current_values(st) == [st EXCEPT !.printed.progress = <<abs(st.m.distance)>>]

\* the else branch with the wrap test one slot early (EVENT_SIZ - 1)
RecordTimestampWrapsEarly(st, us, garbage) ==
    LET times == [st.event_times EXCEPT ![st.event_times_index + 1] = us]
        idx1  == st.event_times_index + 1
        full  == idx1 = EVENT_SIZ - 1
        valid == IF full THEN TRUE ELSE st.event_list_valid
        idx   == IF full THEN 0 ELSE idx1
        freq  == IF valid THEN max_double(get_frequency(times, garbage), st.m.frequency)
                 ELSE st.m.frequency
    IN  print_current_values(
            [st EXCEPT !.m = [distance |-> st.m.distance, frequency |-> freq, us |-> us],
                       !.event_times = times,
                       !.event_times_index = idx,
                       !.event_list_valid = valid])

\* the else branch: record the timestamp, wrap, estimate, keep the peak, print
RecordTimestamp(st, us, garbage) ==
    LET times == [st.event_times EXCEPT ![st.event_times_index + 1] = us]
        idx1  == st.event_times_index + 1
        full  == idx1 = EVENT_SIZ
        valid == IF full THEN TRUE ELSE st.event_list_valid
        idx   == IF full THEN 0 ELSE idx1
        freq  == IF valid THEN max_double(get_frequency(times, garbage), st.m.frequency)
                 ELSE st.m.frequency
    IN  print_current_values(
            [st EXCEPT !.m = [distance |-> st.m.distance, frequency |-> freq, us |-> us],
                       !.event_times = times,
                       !.event_times_index = idx,
                       !.event_list_valid = valid])

\* case REL_X with = in place of +=
AddDistanceAssigns(st, e) ==
    IF e.code = REL_X THEN [st EXCEPT !.m.distance = e.value] ELSE st

\* case REL_X: m->distance += ev->value
AddDistance(st, e) ==
    IF e.code = REL_X THEN [st EXCEPT !.m.distance = st.m.distance + e.value] ELSE st

\* the mouse handler without the test of the event type before the switch
handle_event_any_type(st, e, garbage) ==
    IF e.type = EV_SYN
    THEN LET us == tv2us(e.time)
         IN  IF reset_after_pause(st.m.us, us) THEN IdleReset(st, us)
             ELSE RecordTimestamp(st, us, garbage)
    ELSE AddDistance(st, e)

\* static int handle_event(struct measurements *m, const struct input_event *ev)
handle_event(st, e, garbage) ==
    IF e.type = EV_SYN
    THEN LET us == tv2us(e.time)
         IN  IF reset_after_pause(st.m.us, us) THEN IdleReset(st, us)
             ELSE RecordTimestamp(st, us, garbage)
    ELSE IF e.type # EV_REL THEN st
    ELSE AddDistance(st, e)

\* the mouse tool's state as handle_event sees it
MouseState ==
    [m |-> m, event_times |-> event_times, event_times_index |-> event_times_index,
     event_list_valid |-> event_list_valid, printed |-> printed]

(* ------------------------------------------------------------------ *)
(* handle_event of the touchpad tool                                  *)
(* ------------------------------------------------------------------ *)

\* the X case without the update of right
WidenXLeftOnly(d, v) == [d EXCEPT !.left = min(d.left, v)]

\* case ABS_X: case ABS_MT_POSITION_X
WidenX(d, v) == [d EXCEPT !.left = min(d.left, v), !.right = max(d.right, v)]

\* case ABS_Y: case ABS_MT_POSITION_Y
WidenY(d, v) == [d EXCEPT !.top = min(d.top, v), !.bottom = max(d.bottom, v)]

\* the touchpad handler without the multi-touch case labels
touchpad_handle_event_single_touch(d, e) ==
    IF e.type = EV_SYN THEN d
    ELSE IF e.type # EV_ABS THEN d
    ELSE IF e.code = ABS_X THEN [d EXCEPT !.left = min(d.left, e.value),
                                           !.right = max(d.right, e.value)]
    ELSE IF e.code = ABS_Y THEN [d EXCEPT !.top = min(d.top, e.value),
                                           !.bottom = max(d.bottom, e.value)]
    ELSE d

\* static int handle_event(struct dimensions *d, const struct input_event *ev)
touchpad_handle_event(d, e) ==
    IF e.type = EV_SYN THEN d
    ELSE IF e.type # EV_ABS THEN d
    ELSE IF e.code \in XCodes THEN WidenX(d, e.value)
    ELSE IF e.code \in YCodes THEN WidenY(d, e.value)
    ELSE d

(* ------------------------------------------------------------------ *)
(* Sessions: the program's inputs and what its environment may do      *)
(* ------------------------------------------------------------------ *)

Budget(syn, rel, ab, other, gap, switch, fault, sig) ==
    [syn |-> syn, rel |-> rel, abs |-> ab, other |-> other, gap |-> gap,
     switch |-> switch, fault |-> fault, sig |-> sig]

Session(t, p, a, c, per, b) ==
    [tool |-> t, platform |-> p, argv |-> a, caps |-> c, period |-> per, env |-> b]

\* a bad command line: main returns usage() before touching the device
UsageSessions ==
    {Session(t, "linux", a, {}, 1, Budget(0, 0, 0, 0, 0, 0, 0, 1)) :
        t \in Tools, a \in {"none", "flag"}}

\* the mouse is moved: few frames, motion, a pause, faults, Ctrl+C
MotionSessions ==
    {Session("mouse", p, "path", {}, 1, Budget(MaxSynMotion, MaxRel, 0, 1, 1, 0, 1, 1)) :
        p \in Platforms}

\* the window fills and slides at one spacing, with one pause
PauseSessions ==
    {Session("mouse", "linux", "path", {}, per, Budget(MaxSyn, 0, 0, 0, 1, 0, 0, 0)) :
        per \in Periods}

\* the window fills and slides while the device changes its spacing once
SpeedSessions ==
    {Session("mouse", "linux", "path", {}, per, Budget(MaxSyn, 0, 0, 0, 0, 1, 0, 0)) :
        per \in Periods}

\* the builds of the touchpad tool: the first revision only has the poll loop
TouchpadBuilds ==
    {<<"touchpad", "linux">>, <<"touchpad_kq", "linux">>, <<"touchpad_kq", "bsd">>}

\* a finger moves on a touchpad that has both axes: each revision, each wait
TouchSessions ==
    {Session(tp[1], tp[2], "path", {ABS_X, ABS_Y}, 1, Budget(1, 0, MaxAbs, 1, 0, 0, 1, 1)) :
        tp \in {<<"touchpad", "linux">>, <<"touchpad_kq", "bsd">>}}

\* the device lacks an absolute axis; it still sends what it has
NoAxesSessions ==
    {Session(tp[1], tp[2], "path", c, 1, Budget(1, 0, 1, 0, 0, 0, 0, 1)) :
        tp \in TouchpadBuilds, c \in (SUBSET {ABS_X, ABS_Y}) \ {{ABS_X, ABS_Y}}}

Sessions ==
    UsageSessions \cup MotionSessions \cup PauseSessions \cup SpeedSessions
        \cup TouchSessions \cup NoAxesSessions

\* struct measurements measurements = {0, 0, 0}
InitMeasurements == [distance |-> 0, frequency |-> Zero, us |-> 0]

\* struct dimensions dim is not initialised at its declaration; nothing reads it
\* before main assigns it
InitDimensions == [left |-> 0, right |-> 0, top |-> 0, bottom |-> 0]

Init ==
    \E s \in Sessions :
        /\ tool = s.tool
        /\ platform = s.platform
        /\ argv = s.argv
        /\ caps = s.caps
        /\ period = s.period
        /\ env = s.env
        /\ pc = "start"
        /\ fd_open = FALSE
        /\ dev_alive = FALSE
        /\ rc = 0
        /\ read_rc = "none"
        /\ m = InitMeasurements
        /\ event_times = [i \in 1..EVENT_SIZ |-> 0]
        /\ event_times_index = 0
        /\ event_list_valid = FALSE
        /\ dim = InitDimensions
        /\ printed = [progress |-> <<>>, summary |-> <<>>]
        /\ queue = <<>>
        /\ dev_gone = FALSE
        /\ sigint = FALSE
        /\ clock = 0
        /\ rel_log = <<>>
        /\ xs = {}
        /\ ys = {}
        /\ estimates = {}
        /\ syn_log = <<>>

static == <<tool, platform, argv, caps>>

kernel == <<queue, dev_gone, sigint, clock, period, env>>

\* what the handlers were given and computed, kept for the properties
ghost == <<rel_log, xs, ys, estimates, syn_log>>

(* ------------------------------------------------------------------ *)
(* main, up to the wait loop                                          *)
(* ------------------------------------------------------------------ *)

\* main returns v: the process ends with exit status v
Return(v) == rc' = v /\ pc' = "exited"

\* if (argc < 2) return usage(); if (path[0] == '-') return usage();
Usage ==
    /\ pc = "start"
    /\ argv # "path"
    /\ Return(1)
    /\ UNCHANGED <<static, fd_open, dev_alive, read_rc, meas, printed, kernel, ghost>>

\* fd = open(path, O_RDONLY|O_NONBLOCK); if (fd < 0) return 1;
Open ==
    /\ pc = "start"
    /\ argv = "path"
    /\ \E ok \in BOOLEAN :
          IF ok THEN fd_open' = TRUE /\ pc' = "new_from_fd" /\ rc' = rc
          ELSE fd_open' = fd_open /\ Return(1)
    /\ UNCHANGED <<static, dev_alive, read_rc, meas, printed, kernel, ghost>>

\* rc = libevdev_new_from_fd(fd, &dev); if (rc != 0) return 1;
NewFromFd ==
    /\ pc = "new_from_fd"
    /\ \E ok \in BOOLEAN :
          IF ok THEN dev_alive' = TRUE /\ pc' = "grab" /\ rc' = 0
          ELSE dev_alive' = dev_alive /\ Return(1)
    /\ UNCHANGED <<static, fd_open, read_rc, meas, printed, kernel, ghost>>

\* if (libevdev_grab(dev, LIBEVDEV_GRAB) != 0) return 1; libevdev_grab(dev, LIBEVDEV_UNGRAB);
Grab ==
    /\ pc = "grab"
    /\ \E ok \in BOOLEAN :
          IF ok THEN pc' = (IF tool = "touchpad" THEN "check_axes" ELSE "enter") /\ rc' = rc
          ELSE Return(1)
    /\ UNCHANGED <<static, fd_open, dev_alive, read_rc, meas, printed, kernel, ghost>>

\* if (!libevdev_has_event_code(dev, EV_ABS, ABS_X) || !...ABS_Y) { rc = EXIT_FAILURE; goto out; }
CheckAxes ==
    /\ pc = "check_axes"
    /\ IF ABS_X \notin caps \/ ABS_Y \notin caps
       THEN rc' = 1 /\ pc' = "out"
       ELSE rc' = rc /\ pc' = "enter"
    /\ UNCHANGED <<static, fd_open, dev_alive, read_rc, meas, printed, kernel, ghost>>

\* dim.left = INT_MAX; dim.right = INT_MIN; dim.top = INT_MAX; dim.bottom = INT_MIN;
InitialDimensions == [left |-> INT_MAX, right |-> INT_MIN, top |-> INT_MAX, bottom |-> INT_MIN]

\* the start of mainloop: SIGINT is blocked and made readable, the loop is entered
EnterLoop ==
    /\ pc = "enter"
    /\ dim' = IF tool = "mouse" THEN dim ELSE InitialDimensions
    /\ pc' = "wait"
    /\ UNCHANGED <<static, fd_open, dev_alive, rc, read_rc, m, event_times,
                   event_times_index, event_list_valid, printed, kernel, ghost>>

(* ------------------------------------------------------------------ *)
(* mainloop                                                           *)
(* ------------------------------------------------------------------ *)

\* the device fd is readable (data, or an error to report)
DeviceReady == queue # <<>> \/ dev_gone

\* What one return of the multiplexed wait reports, as the loop's test reads it.
\* poll() fills both revents and the loop looks at fds[1] (the signal) first.
\* kevent() is asked for one event and hands back whichever source it queued
\* first, so with both pending either can come.
WakeSources(plat, sig, ready) ==
    IF plat = "linux"
    THEN (IF sig THEN {"signal"} ELSE IF ready THEN {"device"} ELSE {})
    ELSE (IF sig THEN {"signal"} ELSE {}) \cup (IF ready THEN {"device"} ELSE {})

\* while (poll(fds, 2, -1)) { if (fds[1].revents) break; ...
\* while (kevent(kq, NULL, 0, evlist, 1, NULL) == 1) { if (evlist[0].filter == EVFILT_SIGNAL) break; ...
Wake ==
    /\ pc = "wait"
    /\ \E src \in WakeSources(platform, sigint, DeviceReady) :
          IF src = "signal"
          THEN pc' = "after_loop" /\ rc' = 0      \* break; return 0;
          ELSE pc' = "drain" /\ rc' = rc
    /\ UNCHANGED <<static, fd_open, dev_alive, read_rc, meas, printed, kernel, ghost>>

\* EV_SYN/SYN_DROPPED (code 3): the kernel's mark that it dropped events
IsSynDropped(e) == e.type = EV_SYN /\ e.code = 3

\* rc = libevdev_next_event(dev, LIBEVDEV_READ_FLAG_NORMAL, &ev), on the device as it is
libevdev_next_event ==
    IF dev_gone THEN "-ENODEV"
    ELSE IF queue = <<>> THEN "-EAGAIN"
    ELSE IF IsSynDropped(Head(queue))
         THEN "LIBEVDEV_READ_STATUS_SYNC"
    ELSE "LIBEVDEV_READ_STATUS_SUCCESS"

\* the SYNC branch without its return: the marker is skipped and the pass goes on
ReadSyncIgnored ==
    /\ pc = "drain"
    /\ Len(queue) > 0
    /\ IsSynDropped(Head(queue))
    /\ ~dev_gone
    /\ read_rc' = "LIBEVDEV_READ_STATUS_SYNC"
    /\ queue' = Tail(queue)
    /\ UNCHANGED <<tool, platform, argv, caps, pc, rc, fd_open, dev_alive, m, event_times,
                   event_times_index, event_list_valid, dim, printed, dev_gone, sigint,
                   clock, period, env, rel_log, xs, ys, estimates, syn_log>>

\* if (rc == LIBEVDEV_READ_STATUS_SYNC) { fprintf(stderr, ...); return 1; }
ReadSync ==
    /\ pc = "drain"
    /\ libevdev_next_event = "LIBEVDEV_READ_STATUS_SYNC"
    /\ read_rc' = "LIBEVDEV_READ_STATUS_SYNC"
    /\ queue' = Tail(queue)
    /\ rc' = 1
    /\ pc' = "after_loop"
    /\ UNCHANGED <<static, fd_open, dev_alive, meas, printed, dev_gone, sigint, clock,
                   period, env, ghost>>

\* else if (rc != -EAGAIN && rc < 0) { fprintf(stderr, ...); return 1; }
ReadError ==
    /\ pc = "drain"
    /\ libevdev_next_event = "-ENODEV"
    /\ read_rc' = "-ENODEV"
    /\ rc' = 1
    /\ pc' = "after_loop"
    /\ UNCHANGED <<static, fd_open, dev_alive, meas, printed, kernel, ghost>>

\* -EAGAIN taken for an error: the loop returns 1
ReadAgainIsError ==
    /\ pc = "drain"
    /\ libevdev_next_event = "-EAGAIN"
    /\ read_rc' = "-EAGAIN"
    /\ rc' = 1
    /\ pc' = "after_loop"
    /\ UNCHANGED <<tool, platform, argv, caps, fd_open, dev_alive, m, event_times,
                   event_times_index, event_list_valid, dim, printed, queue, dev_gone,
                   sigint, clock, period, env, rel_log, xs, ys, estimates, syn_log>>

\* } while (rc != -EAGAIN): the drain pass ends, back to the wait
ReadAgain ==
    /\ pc = "drain"
    /\ libevdev_next_event = "-EAGAIN"
    /\ read_rc' = "-EAGAIN"
    /\ pc' = "wait"
    /\ UNCHANGED <<static, fd_open, dev_alive, rc, meas, printed, kernel, ghost>>

\* REL_X values handled since the last pause longer than the idle threshold
RelLogAfter(log, last_us, e) ==
    IF e.type = EV_SYN
    THEN (IF tv2us(e.time) - last_us > idle_reset THEN <<>> ELSE log)
    ELSE IF e.type = EV_REL /\ e.code = REL_X THEN Append(log, e.value)
    ELSE log

\* <<code, value>> of the EV_ABS events handled with one of the given codes
SeenAfter(seen, codes, e) ==
    IF e.type = EV_ABS /\ e.code \in codes THEN seen \cup {<<e.code, e.value>>} ELSE seen

\* timestamps recorded since the last pause longer than the idle threshold
SynLogAfter(log, last_us, e) ==
    IF e.type # EV_SYN THEN log
    ELSE IF tv2us(e.time) - last_us > idle_reset THEN <<>>
    ELSE Append(log, tv2us(e.time))

\* What get_frequency returned since the last such pause; st is the state the
\* handler left: it called get_frequency(event_times) iff the window is valid.
EstimatesAfter(est, last_us, e, st, garbage) ==
    IF e.type # EV_SYN THEN est
    ELSE IF tv2us(e.time) - last_us > idle_reset THEN {}
    ELSE IF st.event_list_valid THEN est \cup {get_frequency(st.event_times, garbage)}
    ELSE est

\* else if (rc == LIBEVDEV_READ_STATUS_SUCCESS) { handle_event(m, &ev); }
ReadSuccess ==
    /\ pc = "drain"
    /\ libevdev_next_event = "LIBEVDEV_READ_STATUS_SUCCESS"
    /\ read_rc' = "LIBEVDEV_READ_STATUS_SUCCESS"
    /\ queue' = Tail(queue)
    /\ IF tool = "mouse"
       THEN /\ \E garbage \in Garbage :
                  LET st == handle_event(MouseState, Head(queue), garbage)
                  IN  /\ m' = st.m
                      /\ event_times' = st.event_times
                      /\ event_times_index' = st.event_times_index
                      /\ event_list_valid' = st.event_list_valid
                      /\ printed' = st.printed
                      /\ estimates' = EstimatesAfter(estimates, m.us, Head(queue), st, garbage)
            /\ dim' = dim
       ELSE /\ dim' = touchpad_handle_event(dim, Head(queue))
            /\ UNCHANGED <<m, event_times, event_times_index, event_list_valid, printed,
                           estimates>>
    /\ rel_log' = IF tool = "mouse" THEN RelLogAfter(rel_log, m.us, Head(queue)) ELSE rel_log
    /\ xs' = IF tool = "mouse" THEN xs ELSE SeenAfter(xs, XCodes, Head(queue))
    /\ ys' = IF tool = "mouse" THEN ys ELSE SeenAfter(ys, YCodes, Head(queue))
    /\ syn_log' = IF tool = "mouse" THEN SynLogAfter(syn_log, m.us, Head(queue)) ELSE syn_log
    /\ UNCHANGED <<static, fd_open, dev_alive, rc, pc, dev_gone, sigint, clock, period, env>>

(* ------------------------------------------------------------------ *)
(* main, after the wait loop                                          *)
(* ------------------------------------------------------------------ *)

\* static void print_summary(struct measurements *m): m->distance = abs(m->distance),
\* which the summary then prints
print_summary(mm) == [mm EXCEPT !.distance = abs(mm.distance)]

\* printf("\n"); print_summary(&measurements); ... (the mouse tool)
\* print_udev_override_rule(dev, &dim); (the touchpad tool, which only reads)
Summary ==
    /\ pc = "after_loop"
    /\ m' = IF tool = "mouse" THEN print_summary(m) ELSE m
    /\ printed' = IF tool = "mouse"
                  THEN [printed EXCEPT !.summary = <<print_summary(m).distance>>]
                  ELSE printed
    /\ pc' = "out"
    /\ UNCHANGED <<static, fd_open, dev_alive, rc, read_rc, event_times,
                   event_times_index, event_list_valid, dim, kernel, ghost>>

\* libevdev_free(dev); close(fd); return rc;
Release ==
    /\ pc = "out"
    /\ dev_alive' = FALSE
    /\ fd_open' = FALSE
    /\ pc' = "exited"
    /\ UNCHANGED <<static, rc, read_rc, meas, printed, kernel, ghost>>

(* ------------------------------------------------------------------ *)
(* The environment: the kernel's evdev queue and the user's Ctrl+C     *)
(* ------------------------------------------------------------------ *)

\* the device can queue one more event for the running loop
CanQueue ==
    /\ pc \in {"wait", "drain"}
    /\ ~dev_gone
    /\ ~sigint
    /\ Len(queue) < MaxQueue
    /\ \A i \in 1..Len(queue) : ~IsSynDropped(queue[i])

Spend(b, field) == [b EXCEPT ![field] = b[field] - 1]

\* spacings the next synchronization event may have
NextSpacings ==
    (IF env.switch > 0 THEN Periods ELSE {period}) \cup (IF env.gap > 0 THEN Gaps ELSE {})

\* a frame ends: EV_SYN/SYN_REPORT (code 0) stamped with the kernel's time
KernelSyn ==
    /\ CanQueue
    /\ env.syn > 0
    /\ \E d \in NextSpacings :
          /\ clock' = clock + d
          /\ queue' = Append(queue, InputEvent(EV_SYN, 0, 0, clock + d))
          /\ period' = IF d \in Gaps THEN period ELSE d
          /\ env' = IF d \in Gaps THEN Spend(Spend(env, "syn"), "gap")
                    ELSE IF d # period THEN Spend(Spend(env, "syn"), "switch")
                    ELSE Spend(env, "syn")
    /\ UNCHANGED <<static, pc, fd_open, dev_alive, rc, read_rc, meas, printed,
                   dev_gone, sigint, ghost>>

\* the mouse moves along x
KernelRel ==
    /\ CanQueue
    /\ env.rel > 0
    /\ \E v \in RelValues :
          queue' = Append(queue, InputEvent(EV_REL, REL_X, v, clock))
    /\ env' = Spend(env, "rel")
    /\ UNCHANGED <<static, pc, fd_open, dev_alive, rc, read_rc, meas, printed,
                   dev_gone, sigint, clock, period, ghost>>

\* a finger position, single-touch or multi-touch
KernelAbs ==
    /\ CanQueue
    /\ env.abs > 0
    /\ \E c \in XCodes \cup YCodes, v \in AbsValues :
          queue' = Append(queue, InputEvent(EV_ABS, c, v, clock))
    /\ env' = Spend(env, "abs")
    /\ UNCHANGED <<static, pc, fd_open, dev_alive, rc, read_rc, meas, printed,
                   dev_gone, sigint, clock, period, ghost>>

\* Events neither tool measures, as <<type, code, value>>: EV_REL/REL_Y (code 1),
\* EV_KEY (type 1)/BTN_LEFT (code 272), EV_ABS/ABS_PRESSURE (code 24), and one
\* event of the other tool's type whose code has the number of a measured one.
OtherEvents ==
    {<<EV_REL, 1, 5>>, <<1, 272, 1>>, <<EV_ABS, 24, 9>>} \cup
    (IF tool = "mouse" THEN {<<EV_ABS, ABS_X, 9>>} ELSE {<<EV_REL, REL_X, 9>>})

KernelOther ==
    /\ CanQueue
    /\ env.other > 0
    /\ \E o \in OtherEvents :
          queue' = Append(queue, InputEvent(o[1], o[2], o[3], clock))
    /\ env' = Spend(env, "other")
    /\ UNCHANGED <<static, pc, fd_open, dev_alive, rc, read_rc, meas, printed,
                   dev_gone, sigint, clock, period, ghost>>

\* the reader fell behind: the kernel drops its queue and leaves SYN_DROPPED
KernelDrop ==
    /\ CanQueue
    /\ env.fault > 0
    /\ queue # <<>>
    /\ queue' = <<InputEvent(EV_SYN, 3, 0, clock)>>
    /\ env' = Spend(env, "fault")
    /\ UNCHANGED <<static, pc, fd_open, dev_alive, rc, read_rc, meas, printed,
                   dev_gone, sigint, clock, period, ghost>>

\* the device is unplugged: reads fail from now on
KernelRemove ==
    /\ pc \in {"wait", "drain"}
    /\ ~dev_gone
    /\ ~sigint
    /\ env.fault > 0
    /\ dev_gone' = TRUE
    /\ queue' = <<>>
    /\ env' = Spend(env, "fault")
    /\ UNCHANGED <<static, pc, fd_open, dev_alive, rc, read_rc, meas, printed,
                   sigint, clock, period, ghost>>

\* Ctrl+C in the loop without the sigprocmask: the default action ends the process
SigintNotBlocked ==
    /\ pc \in {"wait", "drain"}
    /\ ~sigint
    /\ env.sig > 0
    /\ pc' = "killed"
    /\ env' = Spend(env, "sig")
    /\ UNCHANGED <<tool, platform, argv, caps, fd_open, dev_alive, rc, read_rc, m,
                   event_times, event_times_index, event_list_valid, dim, printed,
                   queue, dev_gone, sigint, clock, period, rel_log, xs, ys, estimates,
                   syn_log>>

\* Ctrl+C while SIGINT is blocked by mainloop: it stays pending for the wait
Sigint ==
    /\ pc \in {"wait", "drain"}
    /\ ~sigint
    /\ env.sig > 0
    /\ sigint' = TRUE
    /\ env' = Spend(env, "sig")
    /\ UNCHANGED <<static, pc, fd_open, dev_alive, rc, read_rc, meas, printed,
                   queue, dev_gone, clock, period, ghost>>

\* Ctrl+C before mainloop blocks SIGINT: the default action ends the process
SigintUnblocked ==
    /\ pc \in {"start", "new_from_fd", "grab", "check_axes", "enter"}
    /\ env.sig > 0
    /\ pc' = "killed"
    /\ env' = Spend(env, "sig")
    /\ UNCHANGED <<static, fd_open, dev_alive, rc, read_rc, meas, printed,
                   queue, dev_gone, sigint, clock, period, ghost>>

Next ==
    \/ Usage
    \/ Open
    \/ NewFromFd
    \/ Grab
    \/ CheckAxes
    \/ EnterLoop
    \/ Wake
    \/ ReadSync
    \/ ReadError
    \/ ReadAgain
    \/ ReadSuccess
    \/ Summary
    \/ Release
    \/ KernelSyn
    \/ KernelRel
    \/ KernelAbs
    \/ KernelOther
    \/ KernelDrop
    \/ KernelRemove
    \/ Sigint
    \/ SigintUnblocked

Spec == Init /\ [][Next]_vars

(* ------------------------------------------------------------------ *)
(* get_frequency on its own: every window of a two-slope family         *)
(* ------------------------------------------------------------------ *)

\* first timestamp of the generated windows
WindowStart == 40

\* Timestamps in arrival order: k steps of spacing a, then steps of spacing b.
Ramp(a, b, k) ==
    [j \in 1..EVENT_SIZ |->
        WindowStart + (IF j - 1 <= k THEN (j - 1) * a ELSE k * a + (j - 1 - k) * b)]

\* the ring that holds w with its oldest entry at C index r
Rotate(w, r) == [i \in 1..EVENT_SIZ |-> w[((i - 1 - r + EVENT_SIZ) % EVENT_SIZ) + 1]]

InitFreq ==
    /\ tool = "mouse"
    /\ platform = "linux"
    /\ argv = "path"
    /\ caps = {}
    /\ period = 1
    /\ env = Budget(0, 0, 0, 0, 0, 0, 0, 0)
    /\ pc = "get_frequency"
    /\ fd_open = FALSE
    /\ dev_alive = FALSE
    /\ rc = 0
    /\ read_rc = "none"
    /\ m = InitMeasurements
    /\ \E a \in -1..MaxD, b \in -1..MaxD, k \in 0..(EVENT_SIZ - 1), r \in 0..(EVENT_SIZ - 1) :
          event_times = Rotate(Ramp(a, b, k), r)
    /\ event_times_index = 0
    /\ event_list_valid = TRUE
    /\ dim = InitDimensions
    /\ printed = [progress |-> <<>>, summary |-> <<>>]
    /\ queue = <<>>
    /\ dev_gone = FALSE
    /\ sigint = FALSE
    /\ clock = 0
    /\ rel_log = <<>>
    /\ xs = {}
    /\ ys = {}
    /\ estimates = {}
    /\ syn_log = <<>>

\* double freq = get_frequency(event_times), kept in m.frequency
CallGetFrequency ==
    /\ pc = "get_frequency"
    /\ \E garbage \in Garbage :
          m' = [m EXCEPT !.frequency = get_frequency(event_times, garbage)]
    /\ pc' = "returned"
    /\ UNCHANGED <<static, fd_open, dev_alive, rc, read_rc, event_times, event_times_index,
                   event_list_valid, dim, printed, kernel, ghost>>

NextFreq == CallGetFrequency

SpecFreq == InitFreq /\ [][NextFreq]_vars

(* ------------------------------------------------------------------ *)
(* Vocabulary of the properties                                       *)
(* ------------------------------------------------------------------ *)

RECURSIVE SeqSum(_)
SeqSum(s) == IF s = <<>> THEN 0 ELSE Head(s) + SeqSum(Tail(s))

Values(seen) == {p[2] : p \in seen}

SetMin(S) == CHOOSE x \in S : \A y \in S : x <= y

SetMax(S) == CHOOSE x \in S : \A y \in S : x >= y

\* the ring holds 32 timestamps that rise by d from the oldest, which is at C index r
UniformRing(times, d, r) ==
    \A j \in 0..(EVENT_SIZ - 2) :
        At(times, (r + j + 1) % EVENT_SIZ) - At(times, (r + j) % EVENT_SIZ) = d

\* the forward differences of the ring, as a function on the C indexes that have one
ForwardPairs(times) ==
    {i \in 0..(EVENT_SIZ - 1) : At(times, i) < At(times, (i + 1) % EVENT_SIZ)}

ForwardDifference(times, i) == At(times, (i + 1) % EVENT_SIZ) - At(times, i)

\* x is a median of the forward differences: one of them, with at most half of
\* them below it and at most half of them above it
IsMedianDifference(times, x) ==
    LET P == ForwardPairs(times)
    IN  /\ \E i \in P : ForwardDifference(times, i) = x
        /\ 2 * Cardinality({i \in P : ForwardDifference(times, i) < x}) <= Cardinality(P)
        /\ 2 * Cardinality({i \in P : ForwardDifference(times, i) > x}) <= Cardinality(P)

\* a step of the program, not of its environment (every environment step spends env)
ProgramStep == env' = env

\* the step in which handle_event is given the event at the head of the queue
Handles ==
    /\ ProgramStep
    /\ pc = "drain"
    /\ libevdev_next_event = "LIBEVDEV_READ_STATUS_SUCCESS"
    /\ queue' = Tail(queue)

\* the handled event is a synchronization event gap microseconds after m.us, the
\* timestamp of the previous one (0 before the first)
HandlesSyn == Handles /\ tool = "mouse" /\ Head(queue).type = EV_SYN

SynGap == tv2us(Head(queue).time) - m.us

WindowInvalidated == m'.distance = 0 /\ ~event_list_valid' /\ event_times_index' = 0

InLoop == {"wait", "drain"}

\* f is a largest one of the doubles in S
IsMaxDouble(f, S) == f \in S /\ \A g \in S : ~DoubleGt(g, f)

\* the handled synchronization event takes the reset branch / is recorded
HandlesReset == HandlesSyn /\ SynGap > idle_reset

HandlesRecord == HandlesSyn /\ ~(SynGap > idle_reset)

Touchpads == {"touchpad", "touchpad_kq"}

(* ------------------------------------------------------------------ *)
(* Properties                                                         *)
(* ------------------------------------------------------------------ *)

\* C1 (SpecFreq): for a full window of 32 timestamps that rise by one constant
\* spacing D >= 1, stored with its oldest entry at any ring position,
\* get_frequency returns 1000000/D.
C1_UniformWindowFrequency ==
    \A d \in 1..MaxD, r \in 0..(EVENT_SIZ - 1) :
        (pc = "returned" /\ UniformRing(event_times, d, r))
            => m.frequency = Quot(HZ_NUM, d)

\* C1 witness: a rotated window of spacing 2 (oldest entry in the middle of the
\* ring) for which get_frequency has returned.
C1_Witness ==
    /\ pc = "returned"
    /\ UniformRing(event_times, 2, 11)
    /\ m.frequency = Quot(HZ_NUM, 2)

\* C2 (SpecFreq), as claimed: for every full window, get_frequency returns
\* 1000000 divided by the median of the forward differences it collected.
C2_ReturnsMedianDifference ==
    pc = "returned" =>
        /\ m.frequency.num = HZ_NUM
        /\ IsMedianDifference(event_times, m.frequency.den)

\* C3, as claimed: a synchronization event 3,000,000 us or more after the
\* previous one zeroes the distance and invalidates the window.
C3_ResetAtOrAboveThreshold ==
    [][(HandlesSyn /\ m.us > 0 /\ SynGap >= idle_reset) => WindowInvalidated]_vars

\* C3, amended: a synchronization event more than 3,000,000 us after the
\* previous one (m.us, 0 before the first) zeroes the distance and invalidates
\* the window: valid flag false, write index 0.
C3_ResetAboveThreshold ==
    [][(HandlesSyn /\ SynGap > idle_reset) => WindowInvalidated]_vars

\* C3 witness: a pause longer than the threshold was handled after timestamps
\* had been recorded: slot 0 still holds one, and the index is back at 0 with
\* the window invalid.
C3_Witness ==
    /\ tool = "mouse"
    /\ pc = "drain"
    /\ event_times[1] > 0
    /\ m.us > event_times[1] + idle_reset
    /\ m.distance = 0
    /\ event_times_index = 0
    /\ ~event_list_valid

\* C4: while the loop runs the distance is the signed sum of the REL_X values
\* handled since the last idle reset; every progress line (one per recorded
\* synchronization event) and the final summary print its absolute value.
C4_DistanceIsSignedSum ==
    [][tool = "mouse" =>
        /\ (pc' \in InLoop \cup {"after_loop"} => m'.distance = SeqSum(rel_log'))
        /\ ((HandlesSyn /\ ~(SynGap > idle_reset))
                => printed'.progress = <<abs(SeqSum(rel_log'))>>)
        /\ (printed'.progress # printed.progress
                => printed'.progress = <<abs(SeqSum(rel_log'))>>)
        /\ (pc' \in {"out", "exited"} /\ printed'.summary # <<>>
                => printed'.summary = <<abs(SeqSum(rel_log'))>>)
        /\ (pc = "after_loop" /\ pc' = "out" => printed'.summary # <<>>)]_vars

\* C4 witness: two leftward motions were summed, shown in a progress line and
\* printed in the summary as a positive distance.
C4_Witness ==
    /\ tool = "mouse"
    /\ pc = "exited"
    /\ rel_log = <<-2, -2>>
    /\ printed.progress = <<4>>
    /\ printed.summary = <<4>>

\* C5: once dim is initialised, left/right are the minimum/maximum of all values
\* handled with code ABS_X or ABS_MT_POSITION_X and top/bottom those of all
\* values handled with ABS_Y or ABS_MT_POSITION_Y (the INT_MAX/INT_MIN
\* sentinels while there is none).
C5_BoundsAreMinMax ==
    (tool \in Touchpads /\ pc \in InLoop \cup {"after_loop"}) =>
        /\ dim.left = (IF xs = {} THEN INT_MAX ELSE SetMin(Values(xs)))
        /\ dim.right = (IF xs = {} THEN INT_MIN ELSE SetMax(Values(xs)))
        /\ dim.top = (IF ys = {} THEN INT_MAX ELSE SetMin(Values(ys)))
        /\ dim.bottom = (IF ys = {} THEN INT_MIN ELSE SetMax(Values(ys)))

\* C5 witness: a single-touch and a multi-touch X position with different
\* values were handled and both moved the same pair of bounds.
C5_Witness ==
    /\ tool \in Touchpads
    /\ <<ABS_X, 7>> \in xs
    /\ <<ABS_MT_POSITION_X, 3>> \in xs
    /\ dim.left = 3
    /\ dim.right = 7

\* C6, as claimed: after at least one handled event, left <= right and
\* top <= bottom.
C6_OrderedAfterAnyEvent ==
    (tool \in Touchpads /\ pc \in InLoop /\ read_rc = "LIBEVDEV_READ_STATUS_SUCCESS")
        => (dim.left <= dim.right /\ dim.top <= dim.bottom)

\* C6, amended: left <= right once an X position has been handled and
\* top <= bottom once a Y position has been handled.
C6_OrderedAfterAxisEvent ==
    (tool \in Touchpads /\ pc \in InLoop \cup {"after_loop"}) =>
        /\ (xs # {} => dim.left <= dim.right)
        /\ (ys # {} => dim.top <= dim.bottom)

\* C6 witness: only X positions were handled so far: x is ordered, y still
\* holds its sentinels.
C6_Witness ==
    /\ tool \in Touchpads
    /\ pc \in InLoop
    /\ Cardinality(xs) = 2
    /\ ys = {}
    /\ dim.left < dim.right
    /\ dim.top > dim.bottom

\* C7, as claimed: a touchpad device without both ABS_X and ABS_Y never gets
\* the tool into its wait loop, and the tool exits with status 1.
C7_NoAxesNoLoop ==
    (tool \in Touchpads /\ ~({ABS_X, ABS_Y} \subseteq caps)) =>
        /\ pc \notin InLoop \cup {"after_loop"}
        /\ (pc = "exited" => rc = 1)

\* C8: the read that returns LIBEVDEV_READ_STATUS_SYNC ends the loop in that
\* step with the measurement state untouched and rc 1; afterwards nothing is
\* read from the device, nothing but the summary's abs() touches the
\* measurements, and the exit status stays 1.
C8_DesyncEndsLoop ==
    [][/\ (ProgramStep /\ pc = "drain" /\ libevdev_next_event = "LIBEVDEV_READ_STATUS_SYNC")
            => (pc' = "after_loop" /\ rc' = 1 /\ UNCHANGED meas
                /\ read_rc' = "LIBEVDEV_READ_STATUS_SYNC")
       /\ read_rc = "LIBEVDEV_READ_STATUS_SYNC"
            => /\ pc \in {"after_loop", "out", "exited"}
               /\ pc' \in {"out", "exited"}
               /\ rc' = 1
               /\ UNCHANGED <<queue, read_rc, event_times, event_times_index,
                              event_list_valid, dim>>
               /\ m' \in {m, print_summary(m)}]_vars

\* C8 witness: the mouse tool exited with status 1 after a desynchronization
\* that followed handled motion.
C8_Witness ==
    /\ tool = "mouse"
    /\ pc = "exited"
    /\ read_rc = "LIBEVDEV_READ_STATUS_SYNC"
    /\ rc = 1
    /\ rel_log # <<>>

\* C9, as claimed: whenever main has returned, the file descriptor is closed
\* and the device handle freed.
C9_ReleasedOnEveryExit ==
    pc = "exited" => (~fd_open /\ ~dev_alive)

\* C10, as claimed: with SIGINT pending at the wait (the drain pass has ended),
\* the next wake-up ends the loop with mainloop returning 0 and without
\* handling a device event, also when device events are ready, in both builds.
C10_InterruptWinsEveryWakeup ==
    [][(ProgramStep /\ pc = "wait" /\ sigint /\ pc' # pc)
          => (pc' = "after_loop" /\ rc' = 0 /\ UNCHANGED <<meas, queue>>)]_vars

C12_ValidOnlyWhenFilled ==
    tool = "mouse" =>
        /\ (event_list_valid => Len(syn_log) >= EVENT_SIZ)
        /\ (Len(syn_log) < EVENT_SIZ => (estimates = {} /\ m.frequency = Zero))

\* C12 witness: a window that had been filled (its last slot is written) was
\* reset and one timestamp recorded since: not valid, peak frequency 0.
C12_Witness ==
    /\ tool = "mouse"
    /\ pc \in InLoop
    /\ event_times[EVENT_SIZ] > 0
    /\ Len(syn_log) = 1
    /\ event_times_index = 1
    /\ ~event_list_valid
    /\ m.frequency = Zero

\* C13: only the handling of a synchronization event more than 3,000,000 us
\* after the previous one clears the valid flag, takes the peak frequency back
\* to 0 or resets the distance. In every other step the flag is not cleared,
\* a non-zero peak stays non-zero, and the distance is kept, except that a
\* REL_X event adds its value and the summary takes the absolute value; a
\* synchronization event with a gap of at most 3,000,000 us keeps the distance.
C13_OnlyLongPauseResets ==
    [][(tool = "mouse" /\ ~HandlesReset) =>
        /\ (event_list_valid => event_list_valid')
        /\ (m.frequency # Zero => m'.frequency # Zero)
        /\ (HandlesSyn => m'.distance = m.distance)
        /\ \/ m'.distance = m.distance
           \/ /\ Handles
              /\ Head(queue).type = EV_REL
              /\ Head(queue).code = REL_X
              /\ m'.distance = m.distance + Head(queue).value
           \/ pc = "after_loop" /\ m'.distance = abs(m.distance)]_vars

\* C13 witness: a synchronization event exactly 3,000,000 us after the
\* previous one was recorded with a non-zero distance, which its progress line
\* shows.
C13_Witness ==
    /\ tool = "mouse"
    /\ pc \in InLoop
    /\ Len(syn_log) = 2
    /\ syn_log[2] - syn_log[1] = idle_reset
    /\ m.us = syn_log[2]
    /\ m.distance # 0
    /\ printed.progress = <<abs(m.distance)>>

\* the ring holds the 32 latest entries of syn_log, the oldest of them at the
\* write index and the later ones in the slots that follow it, wrapping
RingHoldsLatest ==
    /\ Len(syn_log) >= EVENT_SIZ
    /\ \A j \in 0..(EVENT_SIZ - 1) :
          At(event_times, (event_times_index + j) % EVENT_SIZ)
              = syn_log[Len(syn_log) - EVENT_SIZ + j + 1]

\* C14: whenever the window is valid the ring holds exactly the 32 most recent
\* timestamps recorded since the last idle reset, oldest at the write index,
\* the others after it in ring order; a synchronization event recorded into a
\* valid window replaces the slot at the write index (the oldest) and no other.
C14_SlidingWindow ==
    [][tool = "mouse" =>
        /\ (event_list_valid' => RingHoldsLatest')
        /\ ((HandlesRecord /\ event_list_valid) =>
               /\ event_list_valid'
               /\ event_times' = [event_times EXCEPT
                                     ![event_times_index + 1] = tv2us(Head(queue).time)]
               /\ event_times_index' = (event_times_index + 1) % EVENT_SIZ)]_vars

\* C14 witness: the valid window slid twice: slots 0 and 1 hold the 33rd and
\* 34th timestamps, newer than the one in slot 31, and slot 2 is the oldest.
C14_Witness ==
    /\ tool = "mouse"
    /\ event_list_valid
    /\ Len(syn_log) = EVENT_SIZ + 2
    /\ event_times_index = 2
    /\ event_times[2] = syn_log[EVENT_SIZ + 2]
    /\ event_times[2] > event_times[EVENT_SIZ]
    /\ event_times[3] = syn_log[3]

\* C15: the write index is always in 0..31; recording a timestamp writes it to
\* the slot the index names, inside the 32-slot buffer, and moves the index on
\* by one, from 31 back to 0; steps that handle no synchronization event
\* leave the index alone.
C15_IndexInRange ==
    [][tool = "mouse" =>
        /\ event_times_index \in 0..(EVENT_SIZ - 1)
        /\ event_times_index' \in 0..(EVENT_SIZ - 1)
        /\ DOMAIN event_times' = 1..EVENT_SIZ
        /\ (HandlesRecord =>
               /\ At(event_times', event_times_index) = tv2us(Head(queue).time)
               /\ event_times_index' =
                      (IF event_times_index = EVENT_SIZ - 1 THEN 0
                       ELSE event_times_index + 1))
        /\ (~HandlesSyn => event_times_index' = event_times_index)]_vars

\* C15 witness: the 32nd timestamp went into slot 31 and the index wrapped
\* to 0.
C15_Witness ==
    /\ tool = "mouse"
    /\ Len(syn_log) = EVENT_SIZ
    /\ event_times[EVENT_SIZ] = syn_log[EVENT_SIZ]
    /\ m.us = syn_log[EVENT_SIZ]
    /\ event_times_index = 0

\* the measurement state after the step is what the tool's handle_event makes
\* of the given event
HandlerApplied(e) ==
    IF tool = "mouse"
    THEN /\ \E garbage \in Garbage :
               LET st == handle_event(MouseState, e, garbage)
               IN  /\ m' = st.m
                   /\ event_times' = st.event_times
                   /\ event_times_index' = st.event_times_index
                   /\ event_list_valid' = st.event_list_valid
         /\ dim' = dim
    ELSE /\ dim' = touchpad_handle_event(dim, e)
         /\ UNCHANGED <<m, event_times, event_times_index, event_list_valid>>

\* C16: in a drain pass each successful read takes the oldest queued event off
\* the queue, gives that event to the handler and reads on (so events are
\* handled once each, in the order they were queued); the pass goes back to
\* the wait only on -EAGAIN, with nothing left queued; -EAGAIN changes no
\* measurement state, sets no exit status and keeps the tool in its loop.
C16_DrainUntilEagain ==
    [][(ProgramStep /\ pc = "drain") =>
        /\ (libevdev_next_event = "LIBEVDEV_READ_STATUS_SUCCESS" =>
               /\ pc' = "drain"
               /\ queue' = Tail(queue)
               /\ HandlerApplied(Head(queue)))
        /\ (pc' = "wait" => (libevdev_next_event = "-EAGAIN" /\ queue = <<>>))
        /\ (libevdev_next_event = "-EAGAIN" =>
               /\ pc' = "wait"
               /\ read_rc' = "-EAGAIN"
               /\ UNCHANGED <<meas, printed, rc, queue, fd_open, dev_alive>>)]_vars

\* C16 witness: two motions were handled in the order they were queued, the
\* pass ended on -EAGAIN and the tool is waiting again.
C16_Witness ==
    /\ tool = "mouse"
    /\ pc = "wait"
    /\ read_rc = "-EAGAIN"
    /\ queue = <<>>
    /\ rel_log = <<1, -2>>
    /\ m.distance = -1

\* the step ends the process or the loop because of an interrupt: the signal's
\* default action, or the loop's break (the only way mainloop returns 0)
ActsOnInterrupt ==
    \/ pc # "killed" /\ pc' = "killed"
    \/ pc \in InLoop /\ pc' = "after_loop" /\ rc' = 0

\* with an interrupt pending, a drain pass goes on as without one: an event read
\* is handled in full and the pass reads on, and the pass leaves the loop only
\* on a failed read
DrainUnaffected ==
    /\ (Handles => (pc' = "drain" /\ queue' = Tail(queue) /\ HandlerApplied(Head(queue))))
    /\ ((ProgramStep /\ pc = "drain" /\ pc' = "after_loop") =>
           (rc' = 1 /\ libevdev_next_event \in {"LIBEVDEV_READ_STATUS_SYNC", "-ENODEV"}))

\* C17, as claimed: an interrupt arriving at any point is acted on only at the
\* wait, and a drain pass with the interrupt pending completes every update.
C17_InterruptOnlyAtWait ==
    [][/\ (ActsOnInterrupt => (pc = "wait" /\ sigint))
       /\ (sigint => DrainUnaffected)]_vars

\* C17, amended: an interrupt arriving once mainloop runs (SIGINT is blocked) is
\* acted on only at the wait: its arrival changes nothing of the program, the
\* loop ends because of it only from the wait, and a drain pass with the
\* interrupt pending completes every update.
C17_InterruptInLoopOnlyAtWait ==
    [][/\ ((pc \in InLoop /\ ActsOnInterrupt) => (pc = "wait" /\ sigint))
       /\ ((pc \in InLoop /\ ~sigint /\ sigint') =>
              UNCHANGED <<pc, rc, read_rc, meas, printed, queue, fd_open, dev_alive>>)
       /\ (sigint => DrainUnaffected)]_vars

\* C17 witness: the poll build inside a drain pass with the interrupt pending
\* (it arrived after the wait returned): one motion handled, one event still
\* queued, the loop running.
C17_Witness ==
    /\ platform = "linux"
    /\ sigint
    /\ pc = "drain"
    /\ read_rc = "LIBEVDEV_READ_STATUS_SUCCESS"
    /\ Len(queue) = 1
    /\ rel_log # <<>>
    /\ m.distance = SeqSum(rel_log)

\* C18, as claimed: whenever handle_event calls get_frequency (the window is
\* valid and event_times is the argument of the latest call), at least 17 of
\* the 32 ring pairs have a strictly greater next timestamp, so that sorted
\* slot 16 is one of the differences computed in that call.
C18_MedianSlotWritten ==
    (tool = "mouse" /\ event_list_valid) =>
        /\ Cardinality(ForwardPairs(event_times)) >= MedianSlot + 1
        /\ MedianSlot < Len(CollectDifferences(event_times, 0, <<>>))

\* what the reset branch leaves: distance 0, whatever REL_X values were summed
\* before, the event's timestamp kept as the previous one but written to no
\* slot of the window, the window empty and not valid
ResetEffect ==
    /\ m'.distance = 0
    /\ m'.us = tv2us(Head(queue).time)
    /\ event_times' = event_times
    /\ event_times_index' = 0
    /\ ~event_list_valid'
    /\ syn_log' = <<>>

\* C19: a synchronization event that triggers the idle reset leaves the
\* distance at 0, discarding the REL_X values of its frame, and is not
\* recorded in the window; the first synchronization event of a session (the
\* previous-timestamp field still 0) with a timestamp above 3,000,000 us is
\* such an event.
C19_ResetDiscardsFrame ==
    [][tool = "mouse" =>
        /\ (HandlesReset => ResetEffect)
        /\ ((HandlesSyn /\ m.us = 0 /\ tv2us(Head(queue).time) > idle_reset)
               => ResetEffect)]_vars

\* C19 witness: one REL_X event and then the session's first synchronization
\* event, stamped 3,000,001 us, were handled (nothing was dropped, nothing is
\* queued): the distance is 0 and the window holds no timestamp.
C19_Witness ==
    /\ tool = "mouse"
    /\ pc = "drain"
    /\ queue = <<>>
    /\ ~dev_gone
    /\ env.rel = MaxRel - 1
    /\ env.syn = MaxSynMotion - 1
    /\ env.fault = 1
    /\ m.us = idle_reset + 1
    /\ m.distance = 0
    /\ syn_log = <<>>
    /\ event_times_index = 0
    /\ \A i \in 1..EVENT_SIZ : event_times[i] = 0

\* the window of the mouse tool
window == <<event_times, event_times_index, event_list_valid>>

\* C20: frame conditions of the handlers. Mouse tool: an event that is neither
\* EV_SYN nor EV_REL/REL_X leaves distance, peak frequency, last timestamp and
\* the window unchanged; an EV_REL/REL_X event changes the distance only.
\* Touchpad tool: an event that is not EV_ABS with one of the four position
\* codes leaves the four bounds unchanged; an X position leaves top and bottom,
\* a Y position leaves left and right unchanged.
C20_FrameConditions ==
    [][Handles =>
        LET e == Head(queue)
            rel_x == e.type = EV_REL /\ e.code = REL_X
            abs_x == e.type = EV_ABS /\ e.code \in {ABS_X, ABS_MT_POSITION_X}
            abs_y == e.type = EV_ABS /\ e.code \in {ABS_Y, ABS_MT_POSITION_Y}
        IN  /\ (tool = "mouse" /\ e.type # EV_SYN /\ ~rel_x) => UNCHANGED <<m, window>>
            /\ (tool = "mouse" /\ rel_x) =>
                   /\ m'.frequency = m.frequency
                   /\ m'.us = m.us
                   /\ UNCHANGED window
            /\ (tool \in Touchpads /\ ~abs_x /\ ~abs_y) => dim' = dim
            /\ (tool \in Touchpads /\ abs_x) =>
                   (dim'.top = dim.top /\ dim'.bottom = dim.bottom)
            /\ (tool \in Touchpads /\ abs_y) =>
                   (dim'.left = dim.left /\ dim'.right = dim.right)]_vars

\* C20 witness: the mouse tool handled a REL_X event of value 1 and an event it
\* does not measure (nothing was dropped, nothing is queued): the distance is
\* the REL_X value and nothing else has changed since the start.
C20_Witness ==
    /\ tool = "mouse"
    /\ pc = "drain"
    /\ queue = <<>>
    /\ ~dev_gone
    /\ env.other = 0
    /\ env.fault = 1
    /\ env.syn = MaxSynMotion
    /\ rel_log = <<1>>
    /\ m = [InitMeasurements EXCEPT !.distance = 1]
    /\ event_times_index = 0
    /\ ~event_list_valid

====
